---- MODULE Spec2Model ----
(***************************************************************************)
(* A model of the billing-extract program under src/ (one Python file):     *)
(* alias-based column resolution, subtotal-row extraction, source-sheet     *)
(* selection, sheet-name sanitising and the batch loop that assembles the   *)
(* output workbook.                                                         *)
(*                                                                          *)
(* Text is a sequence of one-character strings, so that trimming,           *)
(* whitespace removal, case folding, truncation and suffixing are computed  *)
(* character by character as the Python code computes them.  An ASCII      *)
(* character is itself; a Hangul syllable is one element written as its     *)
(* romanisation in braces ("{cha}", "{teu}", "{beon}", "{ho}" is the        *)
(* four-character grouping-field name, "{so}", "{gye}" the subtotal         *)
(* marker), because the parser does not read Hangul inside strings.         *)
(***************************************************************************)
EXTENDS Integers, Sequences, FiniteSets, TLC

VARIABLES
    \* ---- _clean_sheet_name on one registry
    used,           \* the registry: set of sheet names already handed out
    ncalls,         \* number of _clean_sheet_name calls made on the registry
    call,           \* the last call: [name, before, ret], or NoCall
    \* ---- _find_target_sheet
    xls,            \* the workbook being inspected
    sel,            \* [pc, sh]: position of the selector and its result
    \* ---- _canonical_view / _make_filtered
    df,             \* the original table
    ext,            \* [pc, rename_map, out]: position and results of extraction
    \* ---- the button handler
    files,          \* the uploaded files, in supply order
    pc,             \* position of the handler
    fi,             \* index of the next file of the loop
    per_orig,       \* dict label -> original table (insertion ordered)
    per_sub,        \* dict label -> subtotal table (insertion ordered)
    summary_rows,   \* list of summary rows, in processing order
    errors,         \* list of error entries, in processing order
    summary_df,     \* the sorted summary table
    book,           \* the workbook under assembly: sequence of sheets
    todo,           \* labels _build_excel still has to write
    excel_bytes     \* the result of _build_excel, or NoBytes

nameVars  == <<used, ncalls, call>>
selVars   == <<xls, sel>>
extVars   == <<df, ext>>
batchVars == <<files, pc, fi, per_orig, per_sub, summary_rows, errors,
               summary_df, book, todo, excel_bytes>>
vars      == <<used, ncalls, call, xls, sel, df, ext, files, pc, fi, per_orig,
               per_sub, summary_rows, errors, summary_df, book, todo,
               excel_bytes>>

-----------------------------------------------------------------------------
(* Text helpers (Python str methods and re.sub as used by the program)       *)

Min(S) == CHOOSE m \in S : \A o \in S : m <= o
Max(S) == CHOOSE m \in S : \A o \in S : m >= o

\* characters matched by \s and removed by str.strip()
Whitespace == {" ", "\t", "\n", "\r", "\f"}

\* str.lower() on one character: the ASCII capitals and their lower case
LowerMap ==
    ("A" :> "a") @@ ("B" :> "b") @@ ("C" :> "c") @@ ("D" :> "d") @@ ("E" :> "e") @@
    ("F" :> "f") @@ ("G" :> "g") @@ ("H" :> "h") @@ ("I" :> "i") @@ ("J" :> "j") @@
    ("K" :> "k") @@ ("L" :> "l") @@ ("M" :> "m") @@ ("N" :> "n") @@ ("O" :> "o") @@
    ("P" :> "p") @@ ("Q" :> "q") @@ ("R" :> "r") @@ ("S" :> "s") @@ ("T" :> "t") @@
    ("U" :> "u") @@ ("V" :> "v") @@ ("W" :> "w") @@ ("X" :> "x") @@ ("Y" :> "y") @@
    ("Z" :> "z")

UpperChars == DOMAIN LowerMap

LowerChar(c) == IF c \in UpperChars THEN LowerMap[c] ELSE c

\* str.lower()
Lower(s) == [i \in 1..Len(s) |-> LowerChar(s[i])]

\* str.replace(ch, "") and re.sub(<class>, "", s): delete the characters of D
Delete(s, D) == SelectSeq(s, LAMBDA c : c \notin D)

\* str.strip()
Strip(s) ==
    LET keep == {i \in 1..Len(s) : s[i] \notin Whitespace}
    IN  IF keep = {} THEN <<>> ELSE SubSeq(s, Min(keep), Max(keep))

\* s[:n] for n >= 0
Take(s, n) == SubSeq(s, 1, IF Len(s) < n THEN Len(s) ELSE n)

DigitChars == <<"0","1","2","3","4","5","6","7","8","9">>

RECURSIVE Decimal(_)
\* str(i) / f"{i}" for an integer i >= 0
Decimal(i) ==
    IF i < 10 THEN <<DigitChars[i + 1]>>
    ELSE Decimal(i \div 10) \o <<DigitChars[(i % 10) + 1]>>

\* _norm: drop newlines, drop every whitespace run, lower-case
_norm(s) ==
    LET s1 == Delete(Delete(s, {"\n"}), {"\r"})
        s2 == Delete(s1, Whitespace)
    IN  Lower(s2)

-----------------------------------------------------------------------------
(* _clean_sheet_name                                                         *)

\* the sheet-name length limit of line 54 / 61
SheetNameMax == 31

\* characters replaced by "_" (the class [\\/*?:\[\]])
Forbidden == {"\\", "/", "*", "?", ":", "[", "]"}

\* re.sub(r"[\\/*?:\[\]]", "_", name)
SubForbidden(s) == [i \in 1..Len(s) |-> IF s[i] \in Forbidden THEN "_" ELSE s[i]]

\* lines 50-54: the base name before the registry is consulted
BaseName(name) ==
    LET n1 == SubForbidden(Strip(name))
        n2 == IF n1 = <<>> THEN <<"S", "h", "e", "e", "t">> ELSE n1
    IN  Take(n2, SheetNameMax)

\* Candidate without the re-truncation of the base
CandidateNoTruncate(base, i) == base \o (<<"_">> \o Decimal(i))

\* line 60-61: the candidate carrying suffix _i
Candidate(base, i) ==
    LET suf == <<"_">> \o Decimal(i)
    IN  Take(base, SheetNameMax - Len(suf)) \o suf

RECURSIVE Probe(_, _, _)
\* lines 59-65: the while loop from suffix i on
Probe(base, reg, i) ==
    IF Candidate(base, i) \notin reg THEN Candidate(base, i)
    ELSE Probe(base, reg, i + 1)

\* _clean_sheet_name(name, used): the returned name and the registry after
_clean_sheet_name(name, reg) ==
    LET base == BaseName(name)
        ret  == IF base \notin reg THEN base ELSE Probe(base, reg, 2)
    IN  [ret |-> ret, used |-> reg \cup {ret}]

-----------------------------------------------------------------------------
(* Configuration: ALIASES, REQUIRED_COLS, DISPLAY_COLS                       *)

Range(s) == {s[i] : i \in 1..Len(s)}

\* ALIASES, in dict (declaration) order.  The canonical fields are, in this
\* order: chart number {cha}{teu}{beon}{ho} (the grouping field), order code
\* {o}{deo}{ko}{deu}, claim code {cheong}{gu}{ko}{deu}, order amount
\* {o}{deo}{geum}{aek}, unit price {dan}{ga}, quantity {gye}{san} (the
\* exempted field), days {il}{su}, order name {o}{deo}{myeong}{ching}.
ALIASES == <<
    [std |-> <<"{cha}", "{teu}", "{beon}", "{ho}">>, cands |-> <<<<"{cha}", "{teu}", "{beon}", "{ho}">>, <<"{cha}", "{teu}">>, <<"c", "h", "a", "r", "t", "n", "o">>, <<"c", "h", "a", "r", "t", "_", "n", "o">>, <<"c", "h", "a", "r", "t">>>>],
    [std |-> <<"{o}", "{deo}", "{ko}", "{deu}">>, cands |-> <<<<"{o}", "{deo}", "{ko}", "{deu}">>, <<"{o}", "{deo}", " ", "{ko}", "{deu}">>, <<"{cheo}", "{bang}", "{ko}", "{deu}">>, <<"{cheo}", "{bang}", " ", "{ko}", "{deu}">>, <<"o", "r", "d", "e", "r", "c", "o", "d", "e">>, <<"o", "r", "d", "e", "r", "_", "c", "o", "d", "e">>>>],
    [std |-> <<"{cheong}", "{gu}", "{ko}", "{deu}">>, cands |-> <<<<"{cheong}", "{gu}", "{ko}", "{deu}">>, <<"{cheong}", "{gu}", " ", "{ko}", "{deu}">>, <<"e", "d", "i", "{ko}", "{deu}">>, <<"e", "d", "i", " ", "{ko}", "{deu}">>, <<"c", "l", "a", "i", "m", "c", "o", "d", "e">>, <<"c", "l", "a", "i", "m", "_", "c", "o", "d", "e">>>>],
    [std |-> <<"{o}", "{deo}", "{geum}", "{aek}">>, cands |-> <<<<"{o}", "{deo}", "{geum}", "{aek}">>, <<"{o}", "{deo}", " ", "{geum}", "{aek}">>, <<"{geum}", "{aek}">>, <<"{cheong}", "{gu}", "{geum}", "{aek}">>, <<"a", "m", "o", "u", "n", "t">>, <<"o", "r", "d", "e", "r", "a", "m", "t">>, <<"o", "r", "d", "e", "r", "_", "a", "m", "t">>>>],
    [std |-> <<"{dan}", "{ga}">>, cands |-> <<<<"{dan}", "{ga}">>, <<"{su}", "{ga}">>, <<"{su}", "{ga}", "{dan}", "{ga}">>, <<"p", "r", "i", "c", "e">>, <<"u", "n", "i", "t", "p", "r", "i", "c", "e">>, <<"u", "n", "i", "t", "_", "p", "r", "i", "c", "e">>>>],
    [std |-> <<"{gye}", "{san}">>, cands |-> <<<<"{gye}", "{san}">>, <<"{gye}", "{san}", "{yong}", "{ryang}">>, <<"{gye}", "{san}", "{su}", "{ryang}">>, <<"{su}", "{ryang}">>, <<"{hoet}", "{su}">>, <<"{san}", "{jeong}", "{hoet}", "{su}">>, <<"{san}", "{jeong}", "{su}", "{ryang}">>, <<"q", "t", "y">>, <<"q", "u", "a", "n", "t", "i", "t", "y">>>>],
    [std |-> <<"{il}", "{su}">>, cands |-> <<<<"{il}", "{su}">>, <<"d", "a", "y", "s">>, <<"d", "a", "y">>, <<"{gi}", "{gan}">>, <<"{tu}", "{yak}", "{il}", "{su}">>, <<"{jae}", "{won}", "{il}", "{su}">>>>],
    [std |-> <<"{o}", "{deo}", "{myeong}", "{ching}">>, cands |-> <<<<"{o}", "{deo}", "{myeong}", "{ching}">>, <<"{o}", "{deo}", " ", "{myeong}", "{ching}">>, <<"{cheo}", "{bang}", "{myeong}">>, <<"{cheo}", "{bang}", "{myeong}", "{ching}">>, <<"{myeong}", "{ching}">>, <<"{hang}", "{mok}", "{myeong}">>, <<"o", "r", "d", "e", "r", "n", "a", "m", "e">>, <<"o", "r", "d", "e", "r", "_", "n", "a", "m", "e">>>>]
>>

REQUIRED_COLS == <<<<"{cha}", "{teu}", "{beon}", "{ho}">>, <<"{o}", "{deo}", "{ko}", "{deu}">>, <<"{cheong}", "{gu}", "{ko}", "{deu}">>, <<"{o}", "{deo}", "{geum}", "{aek}">>, <<"{dan}", "{ga}">>, <<"{il}", "{su}">>, <<"{o}", "{deo}", "{myeong}", "{ching}">>>>

DISPLAY_COLS == <<<<"{o}", "{deo}", "{ko}", "{deu}">>, <<"{cheong}", "{gu}", "{ko}", "{deu}">>, <<"{o}", "{deo}", "{geum}", "{aek}">>, <<"{dan}", "{ga}">>, <<"{gye}", "{san}">>, <<"{il}", "{su}">>, <<"{o}", "{deo}", "{myeong}", "{ching}">>>>

\* the grouping field, the exempted field, the two numeric display fields
\* and the subtotal sentinel, as the code spells them
ChartCol  == <<"{cha}", "{teu}", "{beon}", "{ho}">>
CalcCol   == <<"{gye}", "{san}">>
AmountCol == <<"{o}", "{deo}", "{geum}", "{aek}">>
PriceCol  == <<"{dan}", "{ga}">>
Sentinel  == <<"{so}", "{gye}">>

\* ALIASES.get(std, [std])
AliasesOf(std) ==
    IF \E a \in 1..Len(ALIASES) : ALIASES[a].std = std
    THEN ALIASES[CHOOSE a \in 1..Len(ALIASES) : ALIASES[a].std = std].cands
    ELSE <<std>>

-----------------------------------------------------------------------------
(* Cells and tables                                                          *)
(* A cell is text, an integer or NaN (an empty spreadsheet cell); a table    *)
(* (DataFrame) has column labels, an index (the row labels .loc keeps) and   *)
(* rows of cells.                                                            *)

Txt(s) == [s |-> s]
Num(n) == [n |-> n]
NaN    == [nan |-> TRUE]

\* astype(str) on one cell
AsStr(c) ==
    IF "s" \in DOMAIN c THEN c.s
    ELSE IF "n" \in DOMAIN c
         THEN (IF c.n < 0 THEN <<"-">> \o Decimal(0 - c.n) ELSE Decimal(c.n))
         ELSE <<"n", "a", "n">>

NoTable == [columns |-> <<>>, index |-> <<>>, rows |-> <<>>]

\* positions of the columns labelled `label`, left to right
Positions(columns, label) ==
    LET idx == {i \in 1..Len(columns) : columns[i] = label}
    IN  SelectSeq([i \in 1..Len(columns) |-> i], LAMBDA i : i \in idx)

RECURSIVE Flatten(_)
Flatten(ss) == IF ss = <<>> THEN <<>> ELSE Head(ss) \o Flatten(Tail(ss))

-----------------------------------------------------------------------------
(* _to_num                                                                   *)

DigitVal(c) == (CHOOSE i \in 1..Len(DigitChars) : DigitChars[i] = c) - 1

RECURSIVE DigitsValue(_)
DigitsValue(t) ==
    IF t = <<>> THEN 0
    ELSE DigitsValue(SubSeq(t, 1, Len(t) - 1)) * 10 + DigitVal(t[Len(t)])

\* pd.to_numeric(errors="coerce").fillna(0) on text holding only digits, "."
\* and "-": an optionally signed run of digits is its value, anything else
\* that is not a number becomes 0.  Fractions are not represented: the cell
\* pools of this model hold no "." .
ToNumeric(t) ==
    LET neg  == t # <<>> /\ t[1] = "-"
        body == IF neg THEN Tail(t) ELSE t
    IN  IF body # <<>> /\ \A i \in 1..Len(body) : body[i] \in Range(DigitChars)
        THEN (IF neg THEN 0 - DigitsValue(body) ELSE DigitsValue(body))
        ELSE 0

\* _to_num on one cell of the series
_to_num(c) ==
    LET s0 == Strip(AsStr(c))
        s1 == IF s0 \in {<<"n", "a", "n">>, <<"N", "o", "n", "e">>} THEN <<>> ELSE s0
        s2 == Delete(s1, {","})
        s3 == SelectSeq(s2, LAMBDA ch : ch \in Range(DigitChars) \cup {".", "-"})
    IN  Num(ToNumeric(s3))

-----------------------------------------------------------------------------
(* _find_target_sheet and _load_original                                     *)
(* A workbook is [ok, sheets]: ok is whether pd.ExcelFile can open it; a     *)
(* sheet is [name, readable, df], readable being whether pd.read_excel of    *)
(* that sheet returns.                                                       *)

\* line 82: the normalised aliases of the grouping field
candidates_norm ==
    [j \in 1..Len(AliasesOf(ChartCol)) |-> _norm(AliasesOf(ChartCol)[j])]

\* lines 86-87: does a peeked header row hold a grouping-field alias
HasChartHeader(columns) ==
    LET cols_norm == {_norm(columns[i]) : i \in 1..Len(columns)}
    IN  \E j \in 1..Len(candidates_norm) : candidates_norm[j] \in cols_norm

RECURSIVE FindFrom(_, _)
\* the for loop of lines 83-91 from sheet i on
FindFrom(sheets, i) ==
    IF i > Len(sheets) THEN sheets[1].name
    ELSE IF ~sheets[i].readable THEN FindFrom(sheets, i + 1)
    ELSE IF HasChartHeader(sheets[i].df.columns) THEN sheets[i].name
    ELSE FindFrom(sheets, i + 1)

RECURSIVE FindFromAbort(_, _)
\* the loop with the try around the whole loop: an unreadable sheet ends it
FindFromAbort(sheets, i) ==
    IF i > Len(sheets) THEN sheets[1].name
    ELSE IF ~sheets[i].readable THEN sheets[1].name
    ELSE IF HasChartHeader(sheets[i].df.columns) THEN sheets[i].name
    ELSE FindFromAbort(sheets, i + 1)

_find_target_sheet_abort(x) == FindFromAbort(x.sheets, 1)

_find_target_sheet(x) == FindFrom(x.sheets, 1)

\* _load_original: [exc, df, sh]
_load_original(uploaded) ==
    IF ~uploaded.xls.ok THEN [exc |-> "BadZipFile", df |-> NoTable, sh |-> <<>>]
    ELSE LET sh == _find_target_sheet(uploaded.xls)
             s  == uploaded.xls.sheets[CHOOSE i \in 1..Len(uploaded.xls.sheets) :
                                            uploaded.xls.sheets[i].name = sh]
         IN  IF ~s.readable THEN [exc |-> "ReadError", df |-> NoTable, sh |-> sh]
             ELSE [exc |-> "none", df |-> s.df, sh |-> sh]

-----------------------------------------------------------------------------
(* _canonical_view                                                           *)

\* d[k] = v on a dict held as a function
Put(m, k, v) == (k :> v) @@ m

EmptyMap == [x \in {} |-> <<>>]

RECURSIVE NormToRawFrom(_, _, _)
\* line 108: {_norm(c): c for c in df.columns}, built column by column from
\* column i on; a later column with the same normalised form overwrites the
\* entry of an earlier one
NormToRawFrom(columns, i, d) ==
    IF i > Len(columns) THEN d
    ELSE NormToRawFrom(columns, i + 1, Put(d, _norm(columns[i]), columns[i]))

NormToRaw(columns) == NormToRawFrom(columns, 1, EmptyMap)

RECURSIVE ScanCandidates(_, _, _)
\* lines 112-116: index of the candidate the inner loop breaks at, 0 if none
ScanCandidates(cand_list, j, norm_to_raw) ==
    IF j > Len(cand_list) THEN 0
    ELSE IF _norm(cand_list[j]) \in DOMAIN norm_to_raw THEN j
    ELSE ScanCandidates(cand_list, j + 1, norm_to_raw)

\* MatchCandidate without the break: the last matching candidate stays
MatchCandidateLast(cand_list, norm_to_raw) ==
    LET hits == {j \in 1..Len(cand_list) : _norm(cand_list[j]) \in DOMAIN norm_to_raw}
    IN  IF hits = {} THEN 0 ELSE Max(hits)

MatchCandidate(cand_list, norm_to_raw) == ScanCandidates(cand_list, 1, norm_to_raw)

RECURSIVE RenameFrom(_, _, _)
\* lines 111-116: the outer loop over ALIASES from entry a on
RenameFrom(a, rename_map, norm_to_raw) ==
    IF a > Len(ALIASES) THEN rename_map
    ELSE LET j == MatchCandidate(ALIASES[a].cands, norm_to_raw)
         IN  IF j = 0 THEN RenameFrom(a + 1, rename_map, norm_to_raw)
             ELSE RenameFrom(a + 1,
                             Put(rename_map, norm_to_raw[_norm(ALIASES[a].cands[j])],
                                 ALIASES[a].std),
                             norm_to_raw)

\* rename_map of lines 110-116: raw column label -> canonical field
RenameMap(columns) == RenameFrom(1, EmptyMap, NormToRaw(columns))

\* _canonical_view: df.rename(columns=rename_map).copy()
_canonical_view(d) ==
    LET rename_map == RenameMap(d.columns)
    IN  [d EXCEPT !.columns = [i \in 1..Len(d.columns) |->
                                 IF d.columns[i] \in DOMAIN rename_map
                                 THEN rename_map[d.columns[i]]
                                 ELSE d.columns[i]]]

-----------------------------------------------------------------------------
(* _make_filtered                                                            *)
(* The result is [exc, missing, sub]: exc is "none" when the subtotal table  *)
(* sub is returned, "ValueError" when the required-column check raises       *)
(* (missing is then the list in its message), and "AttributeError" when a    *)
(* column label that the code reads as one Series is carried by two columns  *)
(* after the rename: df[label] is then a DataFrame, which has no .str.       *)

\* line 132
MissingCols(dfw) == SelectSeq(REQUIRED_COLS, LAMBDA c : c \notin Range(dfw.columns))

\* lines 139-140: dfw[CalcCol] = "" when the column is absent
WithCalc(dfw) ==
    IF CalcCol \in Range(dfw.columns) THEN dfw
    ELSE [dfw EXCEPT !.columns = Append(dfw.columns, CalcCol),
                     !.rows = [r \in 1..Len(dfw.rows) |-> Append(dfw.rows[r], Txt(<<>>))]]

\* line 142: chart = dfw[ChartCol].astype(str).str.strip(), one text per row
ChartOf(dfw) ==
    LET p == Positions(dfw.columns, ChartCol)[1]
    IN  [r \in 1..Len(dfw.rows) |-> Strip(AsStr(dfw.rows[r][p]))]

\* IsSubtotal with the inner whitespace removed before the comparison
IsSubtotalCollapsed(chart_value) == Delete(chart_value, Whitespace) = Sentinel

\* line 143: chart.eq(Sentinel)
IsSubtotal(chart_value) == chart_value = Sentinel

\* line 143: dfw.loc[mask, DISPLAY_COLS].copy(); a label carried by several
\* columns selects all of them
SelectSub(dfw) ==
    LET chart == ChartOf(dfw)
        keep  == SelectSeq([r \in 1..Len(dfw.rows) |-> r], LAMBDA r : IsSubtotal(chart[r]))
        cols  == Flatten([k \in 1..Len(DISPLAY_COLS) |-> Positions(dfw.columns, DISPLAY_COLS[k])])
    IN  [columns |-> [c \in 1..Len(cols) |-> dfw.columns[cols[c]]],
         index   |-> [k \in 1..Len(keep) |-> dfw.index[keep[k]]],
         rows    |-> [k \in 1..Len(keep) |->
                        [c \in 1..Len(cols) |-> dfw.rows[keep[k]][cols[c]]]]]

\* lines 146-147: sub[label] = _to_num(sub[label]) for a label held once
Coerce(sub, label) ==
    LET p == Positions(sub.columns, label)[1]
    IN  [sub EXCEPT !.rows = [r \in 1..Len(sub.rows) |->
                                [sub.rows[r] EXCEPT ![p] = _to_num(sub.rows[r][p])]]]

Failed(exc, missing) == [exc |-> exc, missing |-> missing, sub |-> NoTable]

_make_filtered(df_original) ==
    LET dfw     == _canonical_view(df_original)
        missing == MissingCols(dfw)
        dfw2    == WithCalc(dfw)
    IN  IF missing # <<>> THEN Failed("ValueError", missing)
        ELSE IF Len(Positions(dfw2.columns, ChartCol)) > 1 THEN Failed("AttributeError", <<>>)
        ELSE IF Len(Positions(dfw2.columns, AmountCol)) > 1 THEN Failed("AttributeError", <<>>)
        ELSE IF Len(Positions(dfw2.columns, PriceCol)) > 1 THEN Failed("AttributeError", <<>>)
        ELSE [exc |-> "none", missing |-> <<>>,
              sub |-> Coerce(Coerce(SelectSub(dfw2), AmountCol), PriceCol)]

-----------------------------------------------------------------------------
(* Resting values of the four groups of variables                            *)

NoCall  == [name |-> <<>>, before |-> {}, ret |-> <<>>]
NoBytes == <<>>
NoXls   == [ok |-> FALSE, sheets |-> <<>>]

IdleNames == used = {} /\ ncalls = 0 /\ call = NoCall
IdleSel   == xls = NoXls /\ sel = [pc |-> "idle", sh |-> <<>>]
IdleExt   == df = NoTable /\ ext = [pc |-> "idle", rename_map |-> EmptyMap,
                                    out |-> Failed("none", <<>>)]
IdleBatch == /\ files = <<>> /\ pc = "idle" /\ fi = 0
             /\ per_orig = <<>> /\ per_sub = <<>>
             /\ summary_rows = <<>> /\ errors = <<>> /\ summary_df = <<>>
             /\ book = <<>> /\ todo = <<>> /\ excel_bytes = NoBytes

-----------------------------------------------------------------------------
(* Specification SpecNames: calls of _clean_sheet_name on one registry       *)

\* number of calls made on one registry
MaxCalls == 10

Long33 == <<"A", "B", "C", "D", "E", "F", "G", "H", "I", "J", "K", "L", "M", "N", "O", "P", "Q", "R", "S", "T", "U", "V", "W", "X", "Y", "Z", "0", "1", "2", "3", "4", "5", "6">>

\* candidate names: plain, padded and already suffixed, empty, made of the
\* forbidden characters, longer than the limit, equal to the re-truncated
\* "_2" candidate of the long name, and equal to the placeholder
NamePool == { <<"R", "e", "p", "o", "r", "t">>, <<" ", "R", "e", "p", "o", "r", "t", "_", "2", " ">>, <<>>, <<"\\", "/", "*", "?", ":", "[", "]">>, Long33,
              Take(Long33, 29) \o <<"_", "2">>, <<"S", "h", "e", "e", "t">> }

InitNames == IdleNames /\ IdleSel /\ IdleExt /\ IdleBatch

CleanSheetNameCall ==
    \E name \in NamePool :
        /\ ncalls < MaxCalls
        /\ LET r == _clean_sheet_name(name, used)
           IN  /\ used' = r.used
               /\ call' = [name |-> name, before |-> used, ret |-> r.ret]
        /\ ncalls' = ncalls + 1
        /\ UNCHANGED <<selVars, extVars, batchVars>>

NextNames == CleanSheetNameCall

SpecNames == InitNames /\ [][NextNames]_vars

-----------------------------------------------------------------------------
(* Specification SpecSelect: _find_target_sheet on a bounded set of          *)
(* workbooks                                                                 *)

\* number of sheets of a workbook
MaxSheets == 3

SheetKinds == {"unreadable", "match", "alias", "none"}

\* header row of a sheet of each kind: the grouping field spelled with a
\* blank and a line break, an upper-case alias, no grouping field at all
KindColumns(kind) ==
    CASE kind = "match" -> <<<<"{me}", "{mo}">>, <<"{cha}", "{teu}", " ", "{beon}", "\n", "{ho}">>>>
      [] kind = "alias" -> <<<<"C", "h", "a", "r", "t", " ", "N", "o">>, <<"{me}", "{mo}">>>>
      [] OTHER          -> <<<<"{me}", "{mo}">>, <<"c", "h", "a", "r", "t", "s">>>>

MkSheet(i, kind) ==
    [name     |-> <<"S", "h", "e", "e", "t">> \o Decimal(i),
     readable |-> kind # "unreadable",
     df       |-> [columns |-> KindColumns(kind), index |-> <<>>, rows |-> <<>>]]

XlsPool ==
    UNION { { [ok |-> TRUE, sheets |-> [i \in 1..n |-> MkSheet(i, kinds[i])]] :
              kinds \in [1..n -> SheetKinds] } : n \in 1..MaxSheets }

InitSelect ==
    /\ xls \in XlsPool
    /\ sel = [pc |-> "start", sh |-> <<>>]
    /\ IdleNames /\ IdleExt /\ IdleBatch

FindTargetSheet ==
    /\ sel.pc = "start"
    /\ sel' = [pc |-> "done", sh |-> _find_target_sheet(xls)]
    /\ UNCHANGED <<xls, nameVars, extVars, batchVars>>

NextSelect == FindTargetSheet

SpecSelect == InitSelect /\ [][NextSelect]_vars

-----------------------------------------------------------------------------
(* Specification SpecExtract: _canonical_view and _make_filtered on a        *)
(* bounded set of tables                                                     *)

\* number of rows of the tables whose rows are varied
MaxRows == 3

\* header spellings offered for the grouping field, the order code and the
\* amount: absent, canonical, aliases (also two of them, in both column
\* orders), and pairs of headers with the same normalised form (in both
\* column orders for the amount)
ChartOpts  == { <<>>, <<<<"{cha}", "{teu}", "{beon}", "{ho}">>>>, <<<<"C", "h", "a", "r", "t", " ", "N", "o">>>>,
                <<<<"c", "h", "a", "r", "t">>, <<"{cha}", "{teu}">>>>, <<<<"{cha}", "{teu}">>, <<"c", "h", "a", "r", "t">>>>,
                <<<<"{cha}", "{teu}", "{beon}", "{ho}">>, <<"{cha}", "{teu}", " ", "{beon}", "{ho}">>>> }
CodeOpts   == { <<>>, <<<<"{o}", "{deo}", "{ko}", "{deu}">>>>,
                <<<<"{o}", "{deo}", "{ko}", "{deu}">>, <<"{o}", "{deo}", " ", "{ko}", "{deu}">>>> }
AmountOpts == { <<>>, <<<<"{o}", "{deo}", "{geum}", "{aek}">>>>,
                <<<<"{o}", "{deo}", " ", "{geum}", "{aek}">>, <<"{o}", "{deo}", "{geum}", "{aek}">>>>,
                <<<<"{o}", "{deo}", "{geum}", "{aek}">>, <<"{o}", "{deo}", " ", "{geum}", "{aek}">>>>,
                <<<<"A", "m", "o", "u", "n", "t">>, <<"{geum}", "{aek}">>>> }

\* the remaining five fields (claim code, unit price, quantity, days, name)
RestAll    == <<<<"E", "D", "I", " ", "{ko}", "{deu}">>, <<"{dan}", "{ga}">>, <<"{su}", "{ryang}">>, <<"{il}", "{su}">>, <<"{myeong}", "{ching}">>>>
RestNoCalc == <<<<"E", "D", "I", " ", "{ko}", "{deu}">>, <<"{dan}", "{ga}">>, <<"{il}", "{su}">>, <<"{myeong}", "{ching}">>>>
RestOpts   == { RestAll, RestNoCalc,
                <<<<"{dan}", "{ga}">>, <<"{su}", "{ryang}">>, <<"{il}", "{su}">>, <<"{myeong}", "{ching}">>>>,
                <<<<"E", "D", "I", " ", "{ko}", "{deu}">>, <<"{il}", "{su}">>, <<"{myeong}", "{ching}">>>>,
                <<<<"E", "D", "I", " ", "{ko}", "{deu}">>, <<"{dan}", "{ga}">>, <<"{su}", "{ryang}">>>>,
                <<>> }

ColumnsPool ==
    { c1 \o c2 \o c3 \o c4 :
        c1 \in ChartOpts, c2 \in CodeOpts, c3 \in AmountOpts, c4 \in RestOpts }

\* the header rows whose tables get every combination of grouping values
RowColumns ==
    { <<<<"{cha}", "{teu}", "{beon}", "{ho}">>, <<"{o}", "{deo}", "{ko}", "{deu}">>, <<"{o}", "{deo}", "{geum}", "{aek}">>>> \o RestAll,
      <<<<"C", "h", "a", "r", "t", " ", "N", "o">>, <<"{o}", "{deo}", "{ko}", "{deu}">>, <<"{o}", "{deo}", " ", "{ko}", "{deu}">>, <<"A", "m", "o", "u", "n", "t">>, <<"{geum}", "{aek}">>>>
          \o RestNoCalc,
      <<<<"{cha}", "{teu}">>, <<"c", "h", "a", "r", "t">>, <<"{o}", "{deo}", "{ko}", "{deu}">>, <<"{o}", "{deo}", " ", "{geum}", "{aek}">>,
        <<"{o}", "{deo}", "{geum}", "{aek}">>>> \o RestAll }

\* grouping-field cells: the marker, padded, with an inner blank, a number
ChartValues == { Txt(<<"{so}", "{gye}">>), Txt(<<" ", "{so}", "{gye}", " ">>), Txt(<<"{so}", " ", "{gye}">>), Num(123) }

\* the grouping values of the tables whose header row is varied
FixedChart == << Txt(<<" ", "{so}", "{gye}", " ">>), Txt(<<"{so}", " ", "{gye}">>) >>

\* a table whose grouping-field columns hold the given values and whose other
\* cells hold a number text naming their row and column
MkTable(columns, chartvals) ==
    LET chartish == {i \in 1..Len(columns) : HasChartHeader(<<columns[i]>>)}
    IN  [columns |-> columns,
         index   |-> [r \in 1..Len(chartvals) |-> r - 1],
         rows    |-> [r \in 1..Len(chartvals) |->
                        [i \in 1..Len(columns) |->
                           IF i \in chartish THEN chartvals[r]
                           ELSE Txt(Decimal(100 * r + i))]]]

TablePool ==
    { MkTable(columns, FixedChart) : columns \in ColumnsPool }
    \cup
    UNION { { MkTable(columns, chartvals) :
              columns \in RowColumns, chartvals \in [1..n -> ChartValues] } :
            n \in 0..MaxRows }

InitExtract ==
    /\ df \in TablePool
    /\ ext = [pc |-> "start", rename_map |-> EmptyMap, out |-> Failed("none", <<>>)]
    /\ IdleNames /\ IdleSel /\ IdleBatch

CanonicalView ==
    /\ ext.pc = "start"
    /\ ext' = [ext EXCEPT !.pc = "viewed", !.rename_map = RenameMap(df.columns)]
    /\ UNCHANGED <<df, nameVars, selVars, batchVars>>

MakeFiltered ==
    /\ ext.pc = "viewed"
    /\ ext' = [ext EXCEPT !.pc = "done", !.out = _make_filtered(df)]
    /\ UNCHANGED <<df, nameVars, selVars, batchVars>>

NextExtract == CanonicalView \/ MakeFiltered

SpecExtract == InitExtract /\ [][NextExtract]_vars

-----------------------------------------------------------------------------
(* The button handler (lines 209-272) and _build_excel                       *)

\* an insertion-ordered dict as a sequence of [key, val] entries
DictKeys(d) == [k \in 1..Len(d) |-> d[k].key]
DictGet(d, key) == d[CHOOSE k \in 1..Len(d) : d[k].key = key].val
\* d[key] = val: a new key goes last, an existing key keeps its place
DictSet(d, key, val) ==
    IF \E k \in 1..Len(d) : d[k].key = key
    THEN [k \in 1..Len(d) |-> IF d[k].key = key THEN [key |-> key, val |-> val] ELSE d[k]]
    ELSE Append(d, [key |-> key, val |-> val])

\* line 221: re.sub(r"\.xlsx$", "", f.name, flags=re.IGNORECASE).strip() or f.name
LabelOf(name) ==
    LET n        == Len(name)
        stripped == IF n >= 5 /\ Lower(SubSeq(name, n - 4, n)) = <<".", "x", "l", "s", "x">>
                    THEN SubSeq(name, 1, n - 5) ELSE name
    IN  IF Strip(stripped) # <<>> THEN Strip(stripped) ELSE name

RECURSIVE SumNums(_)
SumNums(cells) == IF cells = <<>> THEN 0 ELSE Head(cells).n + SumNums(Tail(cells))

\* line 233: df_f[AmountCol].sum()
AmountSum(sub) ==
    LET p == Positions(sub.columns, AmountCol)[1]
    IN  SumNums([r \in 1..Len(sub.rows) |-> sub.rows[r][p]])

\* LoopBody with the error list started afresh by every file that succeeds
LoopBodyResetErrors(st, f) ==
    LET label  == LabelOf(f.name)
        loaded == _load_original(f)
        res    == _make_filtered(loaded.df)
    IN  IF loaded.exc # "none"
        THEN [st EXCEPT !.errors = Append(@, [name |-> f.name, exc |-> loaded.exc,
                                               missing |-> <<>>])]
        ELSE IF res.exc # "none"
        THEN [st EXCEPT !.errors = Append(@, [name |-> f.name, exc |-> res.exc,
                                               missing |-> res.missing])]
        ELSE [st EXCEPT !.per_orig = DictSet(@, label, loaded.df),
                        !.per_sub  = DictSet(@, label, res.sub),
                        !.errors   = <<>>,
                        !.summary_rows = Append(@, [label |-> label,
                                                    sheet |-> loaded.sh,
                                                    nrows |-> Len(res.sub.rows),
                                                    total |-> AmountSum(res.sub)])]

\* LoopBody with per_orig[label] assigned before _make_filtered is called
LoopBodyEarlyRegister(st, f) ==
    LET label  == LabelOf(f.name)
        loaded == _load_original(f)
        res    == _make_filtered(loaded.df)
    IN  IF loaded.exc # "none"
        THEN [st EXCEPT !.errors = Append(@, [name |-> f.name, exc |-> loaded.exc,
                                               missing |-> <<>>])]
        ELSE IF res.exc # "none"
        THEN [st EXCEPT !.per_orig = DictSet(@, label, loaded.df),
                        !.errors = Append(@, [name |-> f.name, exc |-> res.exc,
                                               missing |-> res.missing])]
        ELSE [st EXCEPT !.per_orig = DictSet(@, label, loaded.df),
                        !.per_sub  = DictSet(@, label, res.sub),
                        !.summary_rows = Append(@, [label |-> label,
                                                    sheet |-> loaded.sh,
                                                    nrows |-> Len(res.sub.rows),
                                                    total |-> AmountSum(res.sub)])]

\* lines 220-236: one iteration of the loop on file f, from the loop state
\* st = [per_orig, per_sub, summary_rows, errors]
LoopBody(st, f) ==
    LET label  == LabelOf(f.name)
        loaded == _load_original(f)
        res    == _make_filtered(loaded.df)
    IN  IF loaded.exc # "none"
        THEN [st EXCEPT !.errors = Append(@, [name |-> f.name, exc |-> loaded.exc,
                                               missing |-> <<>>])]
        ELSE IF res.exc # "none"
        THEN [st EXCEPT !.errors = Append(@, [name |-> f.name, exc |-> res.exc,
                                               missing |-> res.missing])]
        ELSE [st EXCEPT !.per_orig = DictSet(@, label, loaded.df),
                        !.per_sub  = DictSet(@, label, res.sub),
                        !.summary_rows = Append(@, [label |-> label,
                                                    sheet |-> loaded.sh,
                                                    nrows |-> Len(res.sub.rows),
                                                    total |-> AmountSum(res.sub)])]

\* line 238: if errors
HasErrors(errs) == errs # <<>>

\* lines 244-248: the orders sort_values(ascending=False) may leave the rows
\* in; rows with equal sums come in whatever order the sort leaves them
SortedSummaries(rows) ==
    { [i \in 1..Len(rows) |-> rows[p[i]]] :
        p \in { q \in Permutations(1..Len(rows)) :
                  \A i \in 1..Len(rows) - 1 : rows[q[i]].total >= rows[q[i + 1]].total } }

\* the rows between the two blocks (line 185)
BlankRows == 2

\* StartRow without the header row of block A
StartRowNoHeader(df_f) == Len(df_f.rows) + BlankRows

\* line 185: startrow = (1 + len(df_f)) + 2
StartRow(df_f) == (1 + Len(df_f.rows)) + BlankRows

\* DataFrame.to_excel(writer, sheet_name, index=False, startrow): the header
\* row goes to row startrow (0-based), data row r to row startrow + r; a
\* cell already written there is overwritten
ToExcel(cells, block, d, startrow) ==
    [r \in startrow..(startrow + Len(d.rows)) |->
        IF r = startrow THEN [block |-> block, part |-> "header", values |-> d.columns]
        ELSE [block |-> block, part |-> "data", values |-> d.rows[r - startrow]]]
    @@ cells

NoCells == [r \in {} |-> <<>>]

\* pd.DataFrame(summary_rows): the summary table and its four columns
SummaryFrame(rows) ==
    [columns |-> <<<<"{si}", "{teu}", "(", "{pa}", "{il}", "{myeong}", ")">>, <<"{won}", "{bon}", "{si}", "{teu}">>, <<"{so}", "{gye}", " ", "{haeng}", "{su}">>, <<"{o}", "{deo}", "{geum}", "{aek}", " ", "{hap}", "{gye}">>>>,
     index   |-> [r \in 1..Len(rows) |-> r - 1],
     rows    |-> [r \in 1..Len(rows) |->
                    <<Txt(rows[r].label), Txt(rows[r].sheet),
                      Num(rows[r].nrows), Num(rows[r].total)>>]]

-----------------------------------------------------------------------------
(* Specification Spec: the button handler on a bounded set of uploads        *)

\* number of files of one upload
MaxFiles == 3

BillColumns == <<<<"{cha}", "{teu}", "{beon}", "{ho}">>, <<"{o}", "{deo}", "{ko}", "{deu}">>, <<"{cheong}", "{gu}", "{ko}", "{deu}">>, <<"{o}", "{deo}", "{geum}", "{aek}">>, <<"{dan}", "{ga}">>, <<"{gye}", "{san}">>, <<"{il}", "{su}">>, <<"{o}", "{deo}", "{myeong}", "{ching}">>>>

\* one row under BillColumns
BillRow(chart, amount) ==
    <<chart, Txt(<<"A", "0", "1">>), Txt(<<"E", "0", "1">>), amount, Txt(<<"5", "0">>), NaN, Num(3), Txt(<<"x", "-", "r", "a", "y">>)>>

Table(columns, rows) ==
    [columns |-> columns, index |-> [r \in 1..Len(rows) |-> r - 1], rows |-> rows]

Sheet(name, readable, d) == [name |-> name, readable |-> readable, df |-> d]

CoverTable == Table(<<<<"{me}", "{mo}">>>>, <<<<Txt(<<"c", "o", "v", "e", "r">>)>>>>)

\* two subtotal rows (100 and 250) and one other row
FileReport ==
    [name |-> <<"R", "e", "p", "o", "r", "t", ".", "x", "l", "s", "x">>,
     xls  |-> [ok |-> TRUE, sheets |-> <<
        Sheet(<<"S", "h", "e", "e", "t", "1">>, TRUE,
              Table(BillColumns, << BillRow(Txt(<<"{so}", "{gye}">>), Txt(<<"1", "0", "0">>)),
                                    BillRow(Num(1001), Txt(<<"7", "0">>)),
                                    BillRow(Txt(<<"{so}", "{gye}">>), Txt(<<"2", "5", "0">>)) >>)) >>]]

\* the same label as FileReport; a cover sheet before the data sheet
FileReport2 ==
    [name |-> <<"R", "e", "p", "o", "r", "t", ".", "X", "L", "S", "X">>,
     xls  |-> [ok |-> TRUE, sheets |-> <<
        Sheet(<<"C", "o", "v", "e", "r">>, TRUE, CoverTable),
        Sheet(<<"D", "a", "t", "a">>, TRUE,
              Table(BillColumns, << BillRow(Txt(<<" ", "{so}", "{gye}", " ">>), Txt(<<"1", ",", "0", "0", "0">>)),
                                    BillRow(Num(7), Txt(<<"5">>)) >>)) >>]]

\* the unit price (required) and the quantity (exempted) are both missing
FileBad ==
    [name |-> <<"B", "a", "d", ".", "x", "l", "s", "x">>,
     xls  |-> [ok |-> TRUE, sheets |-> <<
        Sheet(<<"S", "h", "e", "e", "t", "1">>, TRUE,
              Table(<<<<"{cha}", "{teu}", "{beon}", "{ho}">>, <<"{o}", "{deo}", "{ko}", "{deu}">>, <<"{cheong}", "{gu}", "{ko}", "{deu}">>, <<"{o}", "{deo}", "{geum}", "{aek}">>, <<"{il}", "{su}">>, <<"{o}", "{deo}", "{myeong}", "{ching}">>>>,
                    << <<Txt(<<"{so}", "{gye}">>), Txt(<<"A", "0", "1">>), Txt(<<"E", "0", "1">>), Txt(<<"1", "0">>), Num(1),
                         Txt(<<"x", "-", "r", "a", "y">>)>> >>)) >>]]

\* not a spreadsheet container
FileCorrupt == [name |-> <<"C", "o", "r", "r", "u", "p", "t", ".", "x", "l", "s", "x">>, xls |-> [ok |-> FALSE, sheets |-> <<>>]]

\* labelled like the summary sheet; alias headers, no quantity column, no
\* subtotal row
FileSummary ==
    [name |-> <<"{yo}", "{yak}", ".", "x", "l", "s", "x">>,
     xls  |-> [ok |-> TRUE, sheets |-> <<
        Sheet(<<"S", "h", "e", "e", "t", "1">>, TRUE,
              Table(<<<<"C", "h", "a", "r", "t", " ", "N", "o">>, <<"O", "r", "d", "e", "r", "_", "C", "o", "d", "e">>, <<"E", "D", "I", " ", "{ko}", "{deu}">>, <<"{geum}", "{aek}">>, <<"{su}", "{ga}">>, <<"{gi}", "{gan}">>, <<"{hang}", "{mok}", "{myeong}">>>>,
                    << <<Txt(<<"{so}", " ", "{gye}">>), Txt(<<"A", "0", "1">>), Txt(<<"E", "0", "1">>), Txt(<<"1", "0">>), Txt(<<"5">>),
                         Num(1), Txt(<<"x", "-", "r", "a", "y">>)>> >>)) >>]]

\* a name that is only the extension; an unreadable sheet before the data
FileDot ==
    [name |-> <<".", "x", "l", "s", "x">>,
     xls  |-> [ok |-> TRUE, sheets |-> <<
        Sheet(<<"S", "h", "e", "e", "t", "1">>, FALSE, NoTable),
        Sheet(<<"S", "h", "e", "e", "t", "2">>, TRUE,
              Table(BillColumns, << BillRow(Txt(<<"{so}", "{gye}">>), Txt(<<"3", "5", "0">>)) >>)) >>]]

FilePool == {FileReport, FileReport2, FileBad, FileCorrupt, FileSummary, FileDot}

Uploads == UNION { [1..n -> FilePool] : n \in 0..MaxFiles }

Init ==
    /\ files \in Uploads
    /\ pc = "idle" /\ fi = 0
    /\ per_orig = <<>> /\ per_sub = <<>>
    /\ summary_rows = <<>> /\ errors = <<>> /\ summary_df = <<>>
    /\ book = <<>> /\ todo = <<>> /\ excel_bytes = NoBytes
    /\ IdleNames /\ IdleSel /\ IdleExt

\* lines 210-211: nothing uploaded
NoFiles ==
    /\ pc = "idle" /\ files = <<>>
    /\ pc' = "stopped"
    /\ UNCHANGED <<files, fi, per_orig, per_sub, summary_rows, errors, summary_df,
                   book, todo, excel_bytes, nameVars, selVars, extVars>>

\* lines 213-217: the button is pressed
Click ==
    /\ pc = "idle" /\ files # <<>>
    /\ per_orig' = <<>> /\ per_sub' = <<>> /\ summary_rows' = <<>> /\ errors' = <<>>
    /\ fi' = 1
    /\ pc' = "loop"
    /\ UNCHANGED <<files, summary_df, book, todo, excel_bytes, nameVars, selVars, extVars>>

\* lines 219-236: one iteration of the loop
ProcessFile ==
    /\ pc = "loop" /\ fi <= Len(files)
    /\ LET st == LoopBody([per_orig |-> per_orig, per_sub |-> per_sub,
                           summary_rows |-> summary_rows, errors |-> errors],
                          files[fi])
       IN  /\ per_orig' = st.per_orig
           /\ per_sub' = st.per_sub
           /\ summary_rows' = st.summary_rows
           /\ errors' = st.errors
    /\ fi' = fi + 1
    /\ UNCHANGED <<files, pc, summary_df, book, todo, excel_bytes, nameVars, selVars, extVars>>

\* lines 238-242: the errors are shown and the run stops
ReportErrors ==
    /\ pc = "loop" /\ fi > Len(files)
    /\ HasErrors(errors)
    /\ pc' = "failed"
    /\ UNCHANGED <<files, fi, per_orig, per_sub, summary_rows, errors, summary_df,
                   book, todo, excel_bytes, nameVars, selVars, extVars>>

\* lines 244-261: the summary table is sorted and the previews are shown
BuildSummary ==
    /\ pc = "loop" /\ fi > Len(files)
    /\ ~HasErrors(errors)
    /\ summary_df' \in SortedSummaries(summary_rows)
    /\ pc' = "build"
    /\ UNCHANGED <<files, fi, per_orig, per_sub, summary_rows, errors,
                   book, todo, excel_bytes, nameVars, selVars, extVars>>

\* lines 166-172: _build_excel starts with a fresh registry and the summary
\* sheet
WriteSummarySheet ==
    /\ pc = "build"
    /\ LET r == _clean_sheet_name(<<"{yo}", "{yak}">>, {})
       IN  /\ used' = r.used
           /\ call' = [name |-> <<"{yo}", "{yak}">>, before |-> {}, ret |-> r.ret]
           /\ book' = << [name  |-> r.ret,
                          cells |-> ToExcel(NoCells, "S", SummaryFrame(summary_df), 0)] >>
    /\ ncalls' = 1
    /\ todo' = DictKeys(per_orig)
    /\ pc' = "sheets"
    /\ UNCHANGED <<files, fi, per_orig, per_sub, summary_rows, errors, summary_df,
                   excel_bytes, selVars, extVars>>

\* lines 175-186: one iteration of the loop over per_orig.keys()
WriteFileSheet ==
    /\ pc = "sheets" /\ todo # <<>>
    /\ LET label == Head(todo)
           r     == _clean_sheet_name(label, used)
           df_f  == DictGet(per_sub, label)
           df_o  == DictGet(per_orig, label)
           top   == ToExcel(NoCells, "A", df_f, 0)
       IN  /\ used' = r.used
           /\ call' = [name |-> label, before |-> used, ret |-> r.ret]
           /\ book' = Append(book, [name  |-> r.ret,
                                    cells |-> ToExcel(top, "B", df_o, StartRow(df_f))])
    /\ ncalls' = ncalls + 1
    /\ todo' = Tail(todo)
    /\ UNCHANGED <<files, pc, fi, per_orig, per_sub, summary_rows, errors, summary_df,
                   excel_bytes, selVars, extVars>>

\* lines 188-189 and 263-272: the workbook bytes are returned and offered
Download ==
    /\ pc = "sheets" /\ todo = <<>>
    /\ excel_bytes' = book
    /\ pc' = "done"
    /\ UNCHANGED <<files, fi, per_orig, per_sub, summary_rows, errors, summary_df,
                   book, todo, nameVars, selVars, extVars>>

Next ==
    \/ NoFiles \/ Click \/ ProcessFile \/ ReportErrors
    \/ BuildSummary \/ WriteSummarySheet \/ WriteFileSheet \/ Download

Spec == Init /\ [][Next]_vars

-----------------------------------------------------------------------------
(* Properties                                                                *)

\* does processing file f raise (load or extraction)
FileFails(f) ==
    \/ _load_original(f).exc # "none"
    \/ _make_filtered(_load_original(f).df).exc # "none"

\* the handler has left the loop
AfterLoop == pc \in {"failed", "build", "sheets", "done"}

\* C1: all-or-nothing.  Whenever a file of the batch fails loading or
\* extraction, at whatever position, _build_excel is never entered: no sheet
\* is written and no output bytes exist, whatever the other files yielded.
C1_AllOrNothing ==
    (\E i \in 1..Len(files) : FileFails(files[i]))
        => /\ pc \notin {"build", "sheets", "done"}
           /\ book = <<>>
           /\ excel_bytes = NoBytes

\* a failing file came first, a later file was processed successfully, and
\* the run has stopped on the errors
C1_Witness ==
    /\ pc = "failed"
    /\ Len(files) >= 2 /\ FileFails(files[1]) /\ ~FileFails(files[2])
    /\ Len(summary_rows) >= 1 /\ per_orig # <<>>
    /\ excel_bytes = NoBytes

\* C2: fail-together.  After i files of the loop, the error list names
\* exactly the failed ones among them in supply order, the summary rows and
\* the two per-file dicts hold exactly the successful ones, rows plus errors
\* is i, and the loop is left (the batch reported failed, or built) only
\* when every file has been attempted.
C2_FailTogether ==
    pc \in {"loop", "failed", "build", "sheets", "done"} =>
        LET done   == SubSeq(files, 1, fi - 1)
            failed == SelectSeq(done, LAMBDA f : FileFails(f))
            passed == SelectSeq(done, LAMBDA f : ~FileFails(f))
        IN  /\ [k \in 1..Len(errors) |-> errors[k].name]
                 = [k \in 1..Len(failed) |-> failed[k].name]
            /\ [k \in 1..Len(summary_rows) |-> summary_rows[k].label]
                 = [k \in 1..Len(passed) |-> LabelOf(passed[k].name)]
            /\ Range(DictKeys(per_orig)) = {LabelOf(f.name) : f \in Range(passed)}
            /\ Range(DictKeys(per_sub)) = {LabelOf(f.name) : f \in Range(passed)}
            /\ Len(summary_rows) + Len(errors) = fi - 1
            /\ (AfterLoop => fi - 1 = Len(files))

\* three files, the first and the last failing around a successful one, all
\* attempted before the failure is reported
C2_Witness ==
    /\ pc = "failed" /\ Len(files) = 3
    /\ FileFails(files[1]) /\ ~FileFails(files[2]) /\ FileFails(files[3])
    /\ Len(errors) = 2 /\ Len(summary_rows) = 1

\* C3: one sheet per source file.  A finished workbook holds the summary
\* sheet followed by one file sheet per supplied file (per summary row), in
\* supply order; two files labelled "Report" give "Report" and "Report_2".
C3_OneSheetPerFile ==
    pc = "done" =>
        /\ excel_bytes[1].name = <<"{yo}", "{yak}">>
        /\ Len(excel_bytes) = 1 + Len(files)
        /\ Len(excel_bytes) = 1 + Len(summary_rows)
        /\ [k \in 1..Len(files) |-> LabelOf(files[k].name)] = <<<<"R", "e", "p", "o", "r", "t">>, <<"R", "e", "p", "o", "r", "t">>>>
              => [k \in 1..Len(excel_bytes) |-> excel_bytes[k].name]
                    = <<<<"{yo}", "{yak}">>, <<"R", "e", "p", "o", "r", "t">>, <<"R", "e", "p", "o", "r", "t", "_", "2">>>>

\* the suffixed candidate the sanitizer is to return on a collision
Suffixed(base, i) ==
    Take(base, SheetNameMax - (1 + Len(Decimal(i)))) \o <<"_">> \o Decimal(i)

\* C4: sheet-name registry.  Every name returned by _clean_sheet_name is
\* non-empty, at most 31 characters long, free of \ / * ? : [ ], was not in
\* the registry before the call and is the one element the call adds, so all
\* names handed out are distinct; on a collision the name carries the
\* smallest suffix _i, i >= 2, whose re-truncated combination is unused.
C4_SheetNameRegistry ==
    ncalls > 0 =>
        LET ret  == call.ret
            base == BaseName(call.name)
        IN  /\ ret # <<>>
            /\ Len(ret) <= 31
            /\ \A i \in 1..Len(ret) : ret[i] \notin {"\\", "/", "*", "?", ":", "[", "]"}
            /\ ret \notin call.before
            /\ used = call.before \cup {ret}
            /\ Cardinality(used) = ncalls
            /\ IF base \notin call.before THEN ret = base
               ELSE \E i \in 2..(ncalls + 1) :
                       /\ ret = Suffixed(base, i)
                       /\ \A k \in 2..(i - 1) : Suffixed(base, k) \in call.before

\* the long name was handed out so often that its tenth variant, with the
\* base cut to 28 characters, was returned
C4_Witness ==
    /\ ncalls > 0
    /\ call.name = Long33
    /\ call.ret = Take(Long33, 28) \o <<"_", "1", "0">>
    /\ Take(Long33, 29) \o <<"_", "9">> \in call.before

NormKeys(columns) == {_norm(columns[i]) : i \in 1..Len(columns)}

\* is canonical field std resolved from the raw header row
Resolved(std, columns) ==
    \E j \in 1..Len(AliasesOf(std)) : _norm(AliasesOf(std)[j]) \in NormKeys(columns)

UnresolvedRequired(columns) ==
    {REQUIRED_COLS[k] : k \in {n \in 1..Len(REQUIRED_COLS) :
                                 ~Resolved(REQUIRED_COLS[n], columns)}}

\* C5: required-field policy.  Extraction fails exactly when a required
\* field is unresolved; the missing list is then the set of unresolved
\* required fields, without the exempted quantity field; a table missing
\* only the exempted field passes and gets it as an all-empty column.
C5_RequiredFieldPolicy ==
    ext.pc = "done" =>
        LET unresolved == UnresolvedRequired(df.columns)
        IN  /\ (ext.out.exc # "none") <=> (unresolved # {})
            /\ ext.out.exc # "none" =>
                  /\ Range(ext.out.missing) = unresolved
                  /\ CalcCol \notin Range(ext.out.missing)
            /\ (unresolved = {} /\ ~Resolved(CalcCol, df.columns)) =>
                  /\ ext.out.exc = "none"
                  /\ \E p \in 1..Len(ext.out.sub.columns) :
                        /\ ext.out.sub.columns[p] = CalcCol
                        /\ \A r \in 1..Len(ext.out.sub.rows) :
                              ext.out.sub.rows[r][p] = Txt(<<>>)

\* position of the raw column bound to the grouping field
ChartPosition ==
    CHOOSE p \in 1..Len(df.columns) :
        /\ df.columns[p] \in DOMAIN ext.rename_map
        /\ ext.rename_map[df.columns[p]] = ChartCol

\* index labels of the rows whose grouping text satisfies Test, in row order
RowsWhere(Test(_)) ==
    LET hit == SelectSeq([r \in 1..Len(df.rows) |-> r],
                         LAMBDA r : Test(AsStr(df.rows[r][ChartPosition])))
    IN  [k \in 1..Len(hit) |-> df.index[hit[k]]]

TrimEq(t)     == Strip(t) = <<"{so}", "{gye}">>
CollapseEq(t) == Delete(Strip(t), Whitespace) = <<"{so}", "{gye}">>

\* C6 as stated: the subtotal table holds exactly the rows whose grouping
\* value, trimmed and with its inner whitespace deleted, is the marker.
C6_SubtotalCollapses ==
    (ext.pc = "done" /\ ext.out.exc = "none") =>
        ext.out.sub.index = RowsWhere(CollapseEq)

\* C6 amended: the subtotal table holds exactly the rows whose grouping
\* value, with only its leading and trailing whitespace removed, is the
\* marker, in original row order; a value with an inner blank is not
\* selected.
C6_SubtotalTrimOnly ==
    (ext.pc = "done" /\ ext.out.exc = "none") =>
        /\ ext.out.sub.index = RowsWhere(TrimEq)
        /\ \A r \in 1..Len(df.rows) :
              df.rows[r][ChartPosition] = Txt(<<"{so}", " ", "{gye}">>)
                  => df.index[r] \notin Range(ext.out.sub.index)

\* three rows: padded marker (kept), marker with an inner blank (left out),
\* plain marker (kept)
C6_Witness ==
    /\ ext.pc = "done" /\ ext.out.exc = "none"
    /\ Len(df.rows) = 3
    /\ df.rows[1][ChartPosition] = Txt(<<" ", "{so}", "{gye}", " ">>)
    /\ df.rows[2][ChartPosition] = Txt(<<"{so}", " ", "{gye}">>)
    /\ df.rows[3][ChartPosition] = Txt(<<"{so}", "{gye}">>)
    /\ ext.out.sub.index = <<0, 2>>

\* C7: of several raw headers with one normalised form the leftmost is the
\* one a canonical field is bound to.
C7_FirstOccurrenceWins ==
    ext.pc # "start" =>
        \A j \in 1..Len(df.columns) :
            df.columns[j] \in DOMAIN ext.rename_map
                => \A i \in 1..(j - 1) : _norm(df.columns[i]) # _norm(df.columns[j])

\* C9: alias priority.  Each canonical field is bound to exactly one raw
\* header, one whose normalised form is that of the first candidate, in
\* declared order, occurring among the normalised raw headers, wherever the
\* columns stand; a field without a matching candidate is bound to nothing,
\* and the resolver always returns.
C9_AliasPriority ==
    ext.pc # "start" =>
        /\ DOMAIN ext.rename_map \subseteq Range(df.columns)
        /\ \A a \in 1..Len(ALIASES) :
              LET cands == ALIASES[a].cands
                  hits  == {j \in 1..Len(cands) : _norm(cands[j]) \in NormKeys(df.columns)}
                  bound == {h \in DOMAIN ext.rename_map : ext.rename_map[h] = ALIASES[a].std}
              IN  IF hits = {} THEN bound = {}
                  ELSE \E h \in Range(df.columns) :
                          /\ bound = {h}
                          /\ _norm(h) = _norm(cands[Min(hits)])

\* the fifth candidate stands in a column left of the second one, and the
\* second one is bound
C9_Witness ==
    /\ ext.pc # "start"
    /\ Len(df.columns) >= 2
    /\ df.columns[1] = <<"c", "h", "a", "r", "t">> /\ df.columns[2] = <<"{cha}", "{teu}">>
    /\ <<"{cha}", "{teu}">> \in DOMAIN ext.rename_map
    /\ ext.rename_map[<<"{cha}", "{teu}">>] = <<"{cha}", "{teu}", "{beon}", "{ho}">>
    /\ <<"c", "h", "a", "r", "t">> \notin DOMAIN ext.rename_map

\* the three tables behind file sheet k of the workbook under assembly
SubOfSheet(k)  == DictGet(per_sub, DictKeys(per_orig)[k - 1])
OrigOfSheet(k) == DictGet(per_orig, DictKeys(per_orig)[k - 1])

\* C8 as stated: block B's first data row is at 0-based row 1 + N + 2 and
\* block B's header in the row above it.
C8_BlockLayoutAsClaimed ==
    \A k \in 2..Len(book) :
        LET N     == Len(SubOfSheet(k).rows)
            M     == Len(OrigOfSheet(k).rows)
            cells == book[k].cells
        IN  /\ (N + 2) \in DOMAIN cells
            /\ cells[N + 2] = [block |-> "B", part |-> "header",
                               values |-> OrigOfSheet(k).columns]
            /\ M > 0 => /\ (1 + N + 2) \in DOMAIN cells
                        /\ cells[1 + N + 2] = [block |-> "B", part |-> "data",
                                               values |-> OrigOfSheet(k).rows[1]]

\* C8 amended: in every file sheet block A's header is row 0 and its N rows
\* are rows 1..N; rows N+1 and N+2 are blank; block B's header is row
\* 1 + N + 2 and its rows follow from row 1 + N + 3; nothing else is
\* written, so the blocks never overlap, for any N >= 0.
C8_BlockLayout ==
    \A k \in 2..Len(book) :
        LET A     == SubOfSheet(k)
            B     == OrigOfSheet(k)
            N     == Len(A.rows)
            M     == Len(B.rows)
            cells == book[k].cells
        IN  /\ DOMAIN cells = (0..N) \cup ((N + 3)..(N + 3 + M))
            /\ cells[0] = [block |-> "A", part |-> "header", values |-> A.columns]
            /\ \A r \in 1..N :
                  cells[r] = [block |-> "A", part |-> "data", values |-> A.rows[r]]
            /\ cells[N + 3] = [block |-> "B", part |-> "header", values |-> B.columns]
            /\ \A r \in 1..M :
                  cells[N + 3 + r] = [block |-> "B", part |-> "data", values |-> B.rows[r]]

\* a finished workbook with a file sheet of two subtotal rows over three
\* original rows and a file sheet without any subtotal row
C8_Witness ==
    /\ pc = "done"
    /\ \E k \in 2..Len(book) :
          Len(SubOfSheet(k).rows) = 2 /\ Len(OrigOfSheet(k).rows) = 3
    /\ \E k \in 2..Len(book) :
          Len(SubOfSheet(k).rows) = 0 /\ Len(OrigOfSheet(k).rows) = 1

\* normalised aliases of the grouping field
ChartAliasKeys == {<<"{cha}", "{teu}", "{beon}", "{ho}">>, <<"{cha}", "{teu}">>, <<"c", "h", "a", "r", "t", "n", "o">>, <<"c", "h", "a", "r", "t", "_", "n", "o">>, <<"c", "h", "a", "r", "t">>}

\* a readable sheet one of whose headers normalises to a grouping alias
Matching(s) ==
    s.readable /\ \E i \in 1..Len(s.df.columns) : _norm(s.df.columns[i]) \in ChartAliasKeys

\* C10: source-sheet selection.  The selector returns the first readable
\* matching sheet in declared order, skipping unreadable sheets wherever
\* they stand, and the first sheet when no sheet matches.
C10_SheetSelection ==
    sel.pc = "done" =>
        LET m == {i \in 1..Len(xls.sheets) : Matching(xls.sheets[i])}
        IN  sel.sh = xls.sheets[IF m = {} THEN 1 ELSE Min(m)].name

\* an unreadable sheet and a readable sheet without the grouping field come
\* before the matching sheet, which is selected
C10_Witness ==
    /\ sel.pc = "done"
    /\ Len(xls.sheets) = 3
    /\ ~xls.sheets[1].readable
    /\ xls.sheets[2].readable /\ ~Matching(xls.sheets[2])
    /\ Matching(xls.sheets[3])
    /\ sel.sh = xls.sheets[3].name

====
